---- MODULE Spec2Model ----
(***************************************************************************)
(* The escrow program of src/src/processor.rs as a state machine.          *)
(*                                                                         *)
(* State: the token accounts kept by the SPL token program, the lamport    *)
(* (storage) balance of every account, and the data of the escrow          *)
(* accounts ("slots").  One action per instruction: InitEscrow, Exchange   *)
(* and CancelEscrow, each the whole handler including its cross-program    *)
(* calls.  An instruction that returns an error is rolled back by the      *)
(* runtime, so a failing handler commits nothing.                          *)
(***************************************************************************)
EXTENDS Integers, FiniteSets, Sequences, TLC

VARIABLES tokens, lamports, slots, last

vars == <<tokens, lamports, slots, last>>

----------------------------------------------------------------------------
(* Bounds of the model *)

\* instruction amounts and initial token balances range over 0..MaxAmount
MaxAmount == 2

\* u64 is modelled with U64Bits bits, so that checked_add can overflow
U64Bits == 3

U64Max == 2 ^ U64Bits - 1

----------------------------------------------------------------------------
(* Accounts *)

\* wallets: the keys that can sign a transaction
Wallets == {"alice", "bob"}

\* the address derived from the seed "escrow" and the program id
PDA == "pda"

\* Pubkey::default(), the key of a zeroed record
ZeroKey == "0"

MintX == "X"

MintY == "Y"

\* token accounts created before the first instruction
TokenAccts == {"h1", "h2", "aY", "bX", "bY"}

\* escrow accounts, allocated and funded before the first instruction
Slots == {"s1", "s2"}

Accounts == Wallets \cup TokenAccts \cup Slots

\* serialized size of an escrow record: 1 + 32 + 32 + 32 + 8
ESCROW_LEN == 105

\* the program that owns an account: the token program owns the open token
\* accounts, the escrow program the slots, the system program the rest
ProgramOwner(st, k) ==
    IF k \in TokenAccts /\ st.tokens[k].open THEN "spl_token"
    ELSE IF k \in Slots THEN "escrow"
    ELSE "system"

----------------------------------------------------------------------------
(* Results *)

Ok(st) == [err |-> "Ok", st |-> st]

\* an error, with the state reached when it was raised
Err(e, st0) == [err |-> e, st |-> st0]

\* what a handler returns: the error code, the state the handler had reached
\* when it returned, the number of token-program calls completed by then,
\* and whether the handler itself or the token program raised the error
Return(e, st, n, who) == [err |-> e, st |-> st, calls |-> n, by |-> who]

State == [tokens |-> tokens, lamports |-> lamports, slots |-> slots]

\* the data of an account that holds no bytes
EmptyData ==
    [len |-> 0, is_initialized |-> FALSE, initializer_pubkey |-> ZeroKey,
     temp_token_account_pubkey |-> ZeroKey,
     initializer_token_to_receive_account_pubkey |-> ZeroKey,
     expected_amount |-> 0]

\* the data of a freshly allocated escrow account: ESCROW_LEN zero bytes
ZeroedData == [EmptyData EXCEPT !.len = ESCROW_LEN]

\* a token account that was closed: no lamports, no data
ClosedToken == [mint |-> ZeroKey, owner |-> ZeroKey, amount |-> 0, open |-> FALSE]

----------------------------------------------------------------------------
(* The environment: rent and the SPL token program, as the handlers call   *)
(* them.  Every call returns Ok with the new state or the error that       *)
(* aborts the instruction.                                                 *)

\* Rent::is_exempt(lamports, data_len); the minimum balance is one unit
\* for an account of any size
is_exempt(lams, data_len) == lams >= 1

\* Account::unpack of a token account: a closed account has no data
TokenUnpackOk(st, k) == k \in TokenAccts /\ st.tokens[k].open

\* spl_token transfer(source, destination, authority, amount), the authority
\* having signed (directly or through the program's seeds)
transfer(st, source, destination, authority, amount) ==
    IF ~TokenUnpackOk(st, source) \/ ~TokenUnpackOk(st, destination)
    THEN Err("InvalidAccountData", st)
    ELSE IF st.tokens[source].amount < amount
    THEN Err("InsufficientFunds", st)
    ELSE IF st.tokens[source].mint # st.tokens[destination].mint
    THEN Err("MintMismatch", st)
    ELSE IF st.tokens[source].owner # authority
    THEN Err("OwnerMismatch", st)
    ELSE IF source = destination
    THEN Ok(st)
    ELSE IF st.tokens[destination].amount + amount > U64Max
    THEN Err("Overflow", st)
    ELSE Ok([st EXCEPT
               !.tokens[source].amount = @ - amount,
               !.tokens[destination].amount = @ + amount])

\* a slip: an account is closed whatever its balance
close_account_NoBalanceCheck(st, account, destination, authority) ==
    IF account = destination \/ ~TokenUnpackOk(st, account)
    THEN Err("InvalidAccountData", st)
    ELSE IF st.tokens[account].owner # authority
    THEN Err("OwnerMismatch", st)
    ELSE IF st.lamports[destination] + st.lamports[account] > U64Max
    THEN Err("Overflow", st)
    ELSE Ok([st EXCEPT
               !.lamports[destination] = @ + st.lamports[account],
               !.lamports[account] = 0,
               !.tokens[account] = ClosedToken])

\* spl_token close_account(account, destination, authority): the account's
\* lamports go to the destination and its data is wiped
close_account(st, account, destination, authority) ==
    IF account = destination \/ ~TokenUnpackOk(st, account)
    THEN Err("InvalidAccountData", st)
    ELSE IF st.tokens[account].amount # 0
    THEN Err("NonNativeHasBalance", st)
    ELSE IF st.tokens[account].owner # authority
    THEN Err("OwnerMismatch", st)
    ELSE IF st.lamports[destination] + st.lamports[account] > U64Max
    THEN Err("Overflow", st)
    ELSE Ok([st EXCEPT
               !.lamports[destination] = @ + st.lamports[account],
               !.lamports[account] = 0,
               !.tokens[account] = ClosedToken])

\* spl_token set_authority(account, new_authority, AccountOwner, current)
set_authority(st, account, new_authority, current) ==
    IF ~TokenUnpackOk(st, account)
    THEN Err("InvalidAccountData", st)
    ELSE IF st.tokens[account].owner # current
    THEN Err("OwnerMismatch", st)
    ELSE Ok([st EXCEPT !.tokens[account].owner = new_authority])

----------------------------------------------------------------------------
(* The escrow record *)

\* Escrow::unpack_unchecked: the data must be exactly ESCROW_LEN bytes
EscrowUnpackUncheckedErr(data) ==
    IF data.len # ESCROW_LEN THEN "InvalidAccountData" ELSE "Ok"

\* Escrow::unpack: unpack_unchecked, then the record must be initialized
EscrowUnpackErr(data) ==
    IF EscrowUnpackUncheckedErr(data) # "Ok" THEN EscrowUnpackUncheckedErr(data)
    ELSE IF ~data.is_initialized THEN "UninitializedAccount"
    ELSE "Ok"

\* a slot holds a Live record, or is Empty
Live(st, s) == st.slots[s].is_initialized

----------------------------------------------------------------------------
(* Processor::process_init_escrow                                          *)
(* a = [initializer, is_signer, temp_token_account,                        *)
(*      token_to_receive_account, escrow_account, amount]                  *)

\* a slip: the record is not tested for being initialized already
InitChecks_NoInitialized(st, a) ==
    IF ~a.is_signer THEN "MissingRequiredSignature"
    ELSE IF ProgramOwner(st, a.token_to_receive_account) # "spl_token"
    THEN "IncorrectProgramId"
    ELSE IF ~is_exempt(st.lamports[a.escrow_account], st.slots[a.escrow_account].len)
    THEN "AccountNotRentExempt"
    ELSE IF EscrowUnpackUncheckedErr(st.slots[a.escrow_account]) # "Ok"
    THEN EscrowUnpackUncheckedErr(st.slots[a.escrow_account])
    ELSE "Ok"

\* the checks that precede the write of the record
InitChecks(st, a) ==
    IF ~a.is_signer THEN "MissingRequiredSignature"
    ELSE IF ProgramOwner(st, a.token_to_receive_account) # "spl_token"
    THEN "IncorrectProgramId"
    ELSE IF ~is_exempt(st.lamports[a.escrow_account], st.slots[a.escrow_account].len)
    THEN "AccountNotRentExempt"
    ELSE IF EscrowUnpackUncheckedErr(st.slots[a.escrow_account]) # "Ok"
    THEN EscrowUnpackUncheckedErr(st.slots[a.escrow_account])
    ELSE IF st.slots[a.escrow_account].is_initialized
    THEN "AccountAlreadyInitialized"
    ELSE "Ok"

\* a slip: the two token account keys are stored in each other's field
InitRecord_Swapped(st, a) ==
    [len |-> ESCROW_LEN,
     is_initialized |-> TRUE,
     initializer_pubkey |-> a.initializer,
     temp_token_account_pubkey |-> a.token_to_receive_account,
     initializer_token_to_receive_account_pubkey |-> a.temp_token_account,
     expected_amount |-> a.amount]

\* the record packed into the escrow account
InitRecord(st, a) ==
    [len |-> ESCROW_LEN,
     is_initialized |-> TRUE,
     initializer_pubkey |-> a.initializer,
     temp_token_account_pubkey |-> a.temp_token_account,
     initializer_token_to_receive_account_pubkey |-> a.token_to_receive_account,
     expected_amount |-> a.amount]

\* a slip: the authority is handed back to the initializer
InitNewAuthority_Initializer(st, a) == a.initializer

\* the new owner given to the temporary token account
InitNewAuthority(st, a) == PDA

process_init_escrow(st, a) ==
    IF InitChecks(st, a) # "Ok" THEN Return(InitChecks(st, a), st, 0, "handler")
    ELSE
      LET st1 == [st EXCEPT !.slots[a.escrow_account] = InitRecord(st, a)]
          r   == set_authority(st1, a.temp_token_account, InitNewAuthority(st, a),
                               a.initializer)
      IN  IF r.err # "Ok" THEN Return(r.err, r.st, 0, "ledger")
          ELSE Return("Ok", r.st, 1, "handler")

----------------------------------------------------------------------------
(* Processor::process_exchange                                             *)
(* a = [taker, is_signer, taker_token_sent_acc, taker_token_to_receive_acc,*)
(*      escrow_temp_token_acc, escrow_maker_acc,                           *)
(*      escrow_maker_to_receive_acc, escrow_acc, amount_expected]          *)

\* the accounts are read and unpacked in the order of the account list
ExchangeUnpack(st, a) ==
    IF ~a.is_signer THEN "MissingRequiredSignature"
    ELSE IF ~TokenUnpackOk(st, a.taker_token_sent_acc)
            \/ ~TokenUnpackOk(st, a.taker_token_to_receive_acc)
            \/ ~TokenUnpackOk(st, a.escrow_temp_token_acc)
            \/ ~TokenUnpackOk(st, a.escrow_maker_to_receive_acc)
    THEN "InvalidAccountData"
    ELSE EscrowUnpackErr(st.slots[a.escrow_acc])

\* a slip: the declared amount is compared with the amount the maker expects
ExchangeAmountMismatch_Expected(st, a) ==
    a.amount_expected # st.slots[a.escrow_acc].expected_amount

\* the declared amount must be the balance of the temporary account
ExchangeAmountMismatch(st, a) ==
    a.amount_expected # st.tokens[a.escrow_temp_token_acc].amount

\* a slip: a taker holding exactly the expected amount is let through
ExchangeNotEnoughBalance_Strict(st, a) ==
    st.tokens[a.taker_token_sent_acc].amount < st.slots[a.escrow_acc].expected_amount

\* the taker must hold more than the maker expects
ExchangeNotEnoughBalance(st, a) ==
    st.tokens[a.taker_token_sent_acc].amount <= st.slots[a.escrow_acc].expected_amount

\* a slip: the maker's key is not compared with the record
ExchangeAccountsMatch_NoMaker(st, a) ==
    /\ st.slots[a.escrow_acc].temp_token_account_pubkey = a.escrow_temp_token_acc
    /\ st.slots[a.escrow_acc].initializer_token_to_receive_account_pubkey
          = a.escrow_maker_to_receive_acc

\* the accounts recorded in the escrow must be the accounts supplied
ExchangeAccountsMatch(st, a) ==
    /\ st.slots[a.escrow_acc].temp_token_account_pubkey = a.escrow_temp_token_acc
    /\ st.slots[a.escrow_acc].initializer_pubkey = a.escrow_maker_acc
    /\ st.slots[a.escrow_acc].initializer_token_to_receive_account_pubkey
          = a.escrow_maker_to_receive_acc

\* a slip: the taker's balance is checked before the declared amount and the
\* identities before both
ExchangeChecks_BalanceFirst(st, a) ==
    IF st.tokens[a.taker_token_sent_acc].mint
         # st.tokens[a.escrow_maker_to_receive_acc].mint
    THEN "ExpectedMintMismatch"
    ELSE IF st.tokens[a.taker_token_to_receive_acc].mint
              # st.tokens[a.escrow_temp_token_acc].mint
    THEN "ExpectedMintMismatch"
    ELSE IF ~ExchangeAccountsMatch(st, a)
    THEN "InvalidAccountData"
    ELSE IF ExchangeNotEnoughBalance(st, a)
    THEN "NotEnoughBalanceToSent"
    ELSE IF ExchangeAmountMismatch(st, a)
    THEN "ExpectedAmountMismatch"
    ELSE "Ok"

\* the checks made once every account is unpacked, in the handler's order
ExchangeChecks(st, a) ==
    IF st.tokens[a.taker_token_sent_acc].mint
         # st.tokens[a.escrow_maker_to_receive_acc].mint
    THEN "ExpectedMintMismatch"
    ELSE IF st.tokens[a.taker_token_to_receive_acc].mint
              # st.tokens[a.escrow_temp_token_acc].mint
    THEN "ExpectedMintMismatch"
    ELSE IF ExchangeAmountMismatch(st, a)
    THEN "ExpectedAmountMismatch"
    ELSE IF ExchangeNotEnoughBalance(st, a)
    THEN "NotEnoughBalanceToSent"
    ELSE IF ~ExchangeAccountsMatch(st, a)
    THEN "InvalidAccountData"
    ELSE "Ok"

\* the amount moved from the temporary account to the taker
ExchangeToTakerAmount(st, a) == a.amount_expected

\* a slip: the maker is paid the amount the taker declared
ExchangeToMakerAmount_Declared(st, a) == a.amount_expected

\* the amount moved from the taker to the maker
ExchangeToMakerAmount(st, a) == st.slots[a.escrow_acc].expected_amount

\* a slip: the record is cleared before the credit is checked
ExchangeCloseEscrow_ClearFirst(st, a) ==
    IF st.lamports[a.escrow_maker_acc] + st.lamports[a.escrow_acc] > U64Max
    THEN Err("AmountOverflow", [st EXCEPT !.slots[a.escrow_acc] = EmptyData])
    ELSE Ok([st EXCEPT
               !.lamports[a.escrow_maker_acc] = @ + st.lamports[a.escrow_acc],
               !.lamports[a.escrow_acc] = 0,
               !.slots[a.escrow_acc] = EmptyData])

\* the escrow account's lamports go to the maker and its data is emptied
ExchangeCloseEscrow(st, a) ==
    IF st.lamports[a.escrow_maker_acc] + st.lamports[a.escrow_acc] > U64Max
    THEN Err("AmountOverflow", st)
    ELSE Ok([st EXCEPT
               !.lamports[a.escrow_maker_acc] = @ + st.lamports[a.escrow_acc],
               !.lamports[a.escrow_acc] = 0,
               !.slots[a.escrow_acc] = EmptyData])

process_exchange(st, a) ==
    IF ExchangeUnpack(st, a) # "Ok" THEN Return(ExchangeUnpack(st, a), st, 0, "handler")
    ELSE IF ExchangeChecks(st, a) # "Ok" THEN Return(ExchangeChecks(st, a), st, 0, "handler")
    ELSE
      LET r1 == transfer(st, a.escrow_temp_token_acc, a.taker_token_to_receive_acc,
                         PDA, ExchangeToTakerAmount(st, a))
      IN  IF r1.err # "Ok" THEN Return(r1.err, r1.st, 0, "ledger") ELSE
      LET r2 == transfer(r1.st, a.taker_token_sent_acc, a.escrow_maker_to_receive_acc,
                         a.taker, ExchangeToMakerAmount(st, a))
      IN  IF r2.err # "Ok" THEN Return(r2.err, r2.st, 1, "ledger") ELSE
      LET r3 == close_account(r2.st, a.escrow_temp_token_acc, a.escrow_maker_acc, PDA)
      IN  IF r3.err # "Ok" THEN Return(r3.err, r3.st, 2, "ledger") ELSE
      LET r4 == ExchangeCloseEscrow(r3.st, a)
      IN  Return(r4.err, r4.st, 3, "handler")

----------------------------------------------------------------------------
(* Processor::process_cancel                                               *)
(* a = [owner, is_signer, owner_token_to_receive_acc,                      *)
(*      escrow_temp_token_acc, escrow_acc]                                 *)

CancelUnpack(st, a) ==
    IF ~a.is_signer THEN "MissingRequiredSignature"
    ELSE IF ~TokenUnpackOk(st, a.owner_token_to_receive_acc)
            \/ ~TokenUnpackOk(st, a.escrow_temp_token_acc)
    THEN "InvalidAccountData"
    ELSE EscrowUnpackErr(st.slots[a.escrow_acc])

\* the only check made once every account is unpacked
CancelChecks(st, a) ==
    IF st.tokens[a.owner_token_to_receive_acc].mint
         # st.tokens[a.escrow_temp_token_acc].mint
    THEN "ExpectedMintMismatch"
    ELSE "Ok"

\* the amount moved from the temporary account back to the owner
CancelToOwnerAmount(st, a) == st.tokens[a.escrow_temp_token_acc].amount

\* a slip: the lamports are paid out but the record is left in place
CancelCloseEscrow_KeepData(st, a) ==
    IF st.lamports[a.owner] + st.lamports[a.escrow_acc] > U64Max
    THEN Err("AmountOverflow", st)
    ELSE Ok([st EXCEPT
               !.lamports[a.owner] = @ + st.lamports[a.escrow_acc],
               !.lamports[a.escrow_acc] = 0])

\* a slip: the credit wraps around instead of failing
CancelCloseEscrow_Wrapping(st, a) ==
    Ok([st EXCEPT
          !.lamports[a.owner] = (@ + st.lamports[a.escrow_acc]) % (U64Max + 1),
          !.lamports[a.escrow_acc] = 0,
          !.slots[a.escrow_acc] = EmptyData])

\* the escrow account's lamports go to the owner and its data is emptied
CancelCloseEscrow(st, a) ==
    IF st.lamports[a.owner] + st.lamports[a.escrow_acc] > U64Max
    THEN Err("AmountOverflow", st)
    ELSE Ok([st EXCEPT
               !.lamports[a.owner] = @ + st.lamports[a.escrow_acc],
               !.lamports[a.escrow_acc] = 0,
               !.slots[a.escrow_acc] = EmptyData])

process_cancel(st, a) ==
    IF CancelUnpack(st, a) # "Ok" THEN Return(CancelUnpack(st, a), st, 0, "handler")
    ELSE IF CancelChecks(st, a) # "Ok" THEN Return(CancelChecks(st, a), st, 0, "handler")
    ELSE
      LET r1 == transfer(st, a.escrow_temp_token_acc, a.owner_token_to_receive_acc,
                         PDA, CancelToOwnerAmount(st, a))
      IN  IF r1.err # "Ok" THEN Return(r1.err, r1.st, 0, "ledger") ELSE
      LET r2 == close_account(r1.st, a.escrow_temp_token_acc, a.owner, PDA)
      IN  IF r2.err # "Ok" THEN Return(r2.err, r2.st, 1, "ledger") ELSE
      LET r3 == CancelCloseEscrow(r2.st, a)
      IN  Return(r3.err, r3.st, 2, "handler")

----------------------------------------------------------------------------
(* The instructions a client can send: every choice of the accounts of an  *)
(* instruction, drawn from the accounts that can play each part            *)

\* an instruction whose first account did not sign is refused before any
\* other account is read, so the other accounts of such a call are fixed
InitArgs ==
    [initializer : Wallets, is_signer : {TRUE},
     temp_token_account : {"h1", "h2"},
     token_to_receive_account : {"aY", "bY", "alice"},
     escrow_account : Slots, amount : 1..MaxAmount]
    \cup
    [initializer : Wallets, is_signer : {FALSE},
     temp_token_account : {"h1"}, token_to_receive_account : {"aY"},
     escrow_account : Slots, amount : {1}]

ExchangeArgs ==
    [taker : Wallets, is_signer : {TRUE},
     taker_token_sent_acc : {"bY", "bX"},
     taker_token_to_receive_acc : {"bX", "bY", "h2"},
     escrow_temp_token_acc : {"h1", "h2"},
     escrow_maker_acc : Wallets,
     escrow_maker_to_receive_acc : {"aY", "bY"},
     escrow_acc : Slots, amount_expected : 0..MaxAmount]
    \cup
    [taker : Wallets, is_signer : {FALSE},
     taker_token_sent_acc : {"bY"}, taker_token_to_receive_acc : {"bX"},
     escrow_temp_token_acc : {"h1"}, escrow_maker_acc : {"alice"},
     escrow_maker_to_receive_acc : {"aY"},
     escrow_acc : Slots, amount_expected : {0}]

CancelArgs ==
    [owner : Wallets, is_signer : {TRUE},
     owner_token_to_receive_acc : TokenAccts,
     escrow_temp_token_acc : TokenAccts,
     escrow_acc : Slots]
    \cup
    [owner : Wallets, is_signer : {FALSE},
     owner_token_to_receive_acc : {"aY"}, escrow_temp_token_acc : {"h1"},
     escrow_acc : Slots]

\* a wallet uses the token program directly, under its own authority, to
\* move tokens out of an account that can become a temporary account
TransferArgs ==
    [authority : Wallets, source : {"h1", "h2"},
     destination : {"bX"}, amount : {MaxAmount}]

\* no instruction yet, or the arguments of a failed one
NoArgs == [none |-> TRUE]

----------------------------------------------------------------------------
(* The state machine *)

\* the token accounts before the first instruction
InitTokens ==
    [k \in TokenAccts |->
       [mint   |-> IF k \in {"h1", "h2", "bX"} THEN MintX ELSE MintY,
        owner  |-> IF k \in {"bX", "bY"} THEN "bob" ELSE "alice",
        amount |-> IF k \in {"h1", "bY"} THEN MaxAmount
                   ELSE IF k = "h2" THEN 1 ELSE 0,
        open   |-> TRUE]]

Init ==
    /\ tokens = InitTokens
    /\ lamports = [k \in Accounts |->
                    IF k = "alice" THEN U64Max - 3 ELSE IF k = "bob" THEN 0 ELSE 1]
    /\ slots = [s \in Slots |-> ZeroedData]
    /\ last = [op |-> "none", err |-> "Ok", args |-> NoArgs, pre |-> NoArgs]

\* last is the outcome of the most recent instruction: its error code and,
\* when it was committed, its accounts and the state it started from.
\* a runtime that kept what a handler had written when it returned an error
Commit_NoRollback(op, a, r) ==
    /\ tokens' = r.st.tokens
    /\ lamports' = r.st.lamports
    /\ slots' = r.st.slots
    /\ last' = [op |-> op, err |-> r.err,
                args |-> IF r.err = "Ok" THEN a ELSE NoArgs,
                pre |-> IF r.err = "Ok" THEN State ELSE NoArgs]

\* the runtime commits the result of a handler: its state when it returned
\* Ok, the state before the instruction when it returned an error
Commit(op, a, r) ==
    /\ tokens' = IF r.err = "Ok" THEN r.st.tokens ELSE tokens
    /\ lamports' = IF r.err = "Ok" THEN r.st.lamports ELSE lamports
    /\ slots' = IF r.err = "Ok" THEN r.st.slots ELSE slots
    /\ last' = [op |-> op, err |-> r.err,
                args |-> IF r.err = "Ok" THEN a ELSE NoArgs,
                pre |-> IF r.err = "Ok" THEN State ELSE NoArgs]

InitEscrow == \E a \in InitArgs : Commit("InitEscrow", a, process_init_escrow(State, a))

Exchange == \E a \in ExchangeArgs : Commit("Exchange", a, process_exchange(State, a))

CancelEscrow == \E a \in CancelArgs : Commit("CancelEscrow", a, process_cancel(State, a))

\* a transfer instruction sent to the token program, not to the escrow
TokenTransfer ==
    \E a \in TransferArgs :
        LET r == transfer(State, a.source, a.destination, a.authority, a.amount)
        IN  /\ tokens' = r.st.tokens
            /\ UNCHANGED <<lamports, slots>>
            /\ last' = [op |-> "Transfer", err |-> r.err, args |-> a,
                        pre |-> IF r.err = "Ok" THEN State ELSE NoArgs]

Next == InitEscrow \/ Exchange \/ CancelEscrow

Spec == Init /\ [][Next]_vars

\* the escrow instructions together with direct use of the token program
NextLedger == Next \/ TokenTransfer

SpecLedger == Init /\ [][NextLedger]_vars

----------------------------------------------------------------------------
(* Properties *)

\* the record a committed instruction found in the escrow account it named
PreRecord == last.pre.slots[last.args.escrow_acc]

Committed(op) == last.op = op /\ last.err = "Ok"

\* C1: a Cancel on a Live record succeeds only if the signing caller is the
\* record's initializer; a Cancel signed by anyone else moves no tokens.
C1_CancelOnlyByInitializer ==
    Committed("CancelEscrow") => last.args.owner = PreRecord.initializer_pubkey

\* the four token accounts of an Exchange are pairwise distinct
ExchangeAccountsDistinct(a) ==
    Cardinality({a.taker_token_sent_acc, a.taker_token_to_receive_acc,
                 a.escrow_temp_token_acc, a.escrow_maker_to_receive_acc}) = 4

\* C2: a successful Exchange with four distinct token accounts pays the
\* maker's receive account exactly expected_amount out of the taker's send
\* account, pays the taker's receive account the whole balance the temporary
\* account held, closes the temporary account and leaves the slot Empty.
C2_ExchangeEffect ==
    (Committed("Exchange") /\ ExchangeAccountsDistinct(last.args)) =>
        LET a == last.args
            p == last.pre.tokens
        IN  /\ PreRecord.is_initialized
            /\ tokens[a.escrow_maker_to_receive_acc].amount
                 = p[a.escrow_maker_to_receive_acc].amount + PreRecord.expected_amount
            /\ tokens[a.taker_token_sent_acc].amount
                 = p[a.taker_token_sent_acc].amount - PreRecord.expected_amount
            /\ tokens[a.taker_token_to_receive_acc].amount
                 = p[a.taker_token_to_receive_acc].amount
                   + p[a.escrow_temp_token_acc].amount
            /\ ~tokens[a.escrow_temp_token_acc].open
            /\ ~Live(State, a.escrow_acc)

\* an Exchange was committed that moved tokens both ways
C2_Witness ==
    /\ Committed("Exchange") /\ ExchangeAccountsDistinct(last.args)
    /\ PreRecord.expected_amount > 0
    /\ last.pre.tokens[last.args.escrow_temp_token_acc].amount > PreRecord.expected_amount

\* the Cancel calls that undo the InitEscrow just committed: signed by its
\* initializer, naming its escrow and temporary accounts, and a receive
\* account of the temporary account's mint
RoundTripCancels ==
    {c \in CancelArgs :
        /\ c.is_signer
        /\ c.owner = last.args.initializer
        /\ c.escrow_acc = last.args.escrow_account
        /\ c.escrow_temp_token_acc = last.args.temp_token_account
        /\ TokenUnpackOk(State, c.owner_token_to_receive_acc)
        /\ tokens[c.owner_token_to_receive_acc].mint
             = tokens[c.escrow_temp_token_acc].mint}

\* what a round trip returns: the balance of the temporary account is added
\* to the receive account and the slot is no longer Live
RoundTripReturns(c, r) ==
    /\ r.st.tokens[c.owner_token_to_receive_acc].amount
         = tokens[c.owner_token_to_receive_acc].amount
           + tokens[c.escrow_temp_token_acc].amount
    /\ ~Live(r.st, c.escrow_acc)

ExchangeOnLive(a) ==
    /\ a.is_signer
    /\ \A k \in {a.taker_token_sent_acc, a.taker_token_to_receive_acc,
                  a.escrow_temp_token_acc, a.escrow_maker_to_receive_acc} :
          k \in TokenAccts /\ tokens[k].open
    /\ slots[a.escrow_acc].len = ESCROW_LEN
    /\ slots[a.escrow_acc].is_initialized

\* precondition 2: the asset types match
MintsMatch(a) ==
    /\ tokens[a.taker_token_sent_acc].mint = tokens[a.escrow_maker_to_receive_acc].mint
    /\ tokens[a.taker_token_to_receive_acc].mint = tokens[a.escrow_temp_token_acc].mint

\* precondition 3: the declared amount is the balance of the temporary account
AmountMatches(a) == a.amount_expected = tokens[a.escrow_temp_token_acc].amount

\* precondition 4: the taker holds more than the record expects
TakerHoldsMore(a) ==
    tokens[a.taker_token_sent_acc].amount > slots[a.escrow_acc].expected_amount

\* precondition 5 fails: a supplied account is not the one in the record
Spoofed(a) ==
    \/ a.escrow_temp_token_acc # slots[a.escrow_acc].temp_token_account_pubkey
    \/ a.escrow_maker_acc # slots[a.escrow_acc].initializer_pubkey
    \/ a.escrow_maker_to_receive_acc
         # slots[a.escrow_acc].initializer_token_to_receive_account_pubkey

\* C4: an Exchange on a Live record that passes the signature, asset-type,
\* amount and balance checks but names a temporary account, maker or maker
\* receive account other than the recorded one fails with InvalidAccountData
\* and changes nothing.
C4_SpoofedRejected ==
    \A a \in ExchangeArgs :
        (ExchangeOnLive(a) /\ MintsMatch(a) /\ AmountMatches(a)
           /\ TakerHoldsMore(a) /\ Spoofed(a)) =>
            /\ process_exchange(State, a).err = "InvalidAccountData"
            /\ process_exchange(State, a).st = State

\* an Exchange naming another maker than the recorded one has just been
\* refused with InvalidAccountData
C4_Witness ==
    /\ last.op = "Exchange" /\ last.err = "InvalidAccountData"
    /\ \E a \in ExchangeArgs :
         /\ ExchangeOnLive(a) /\ MintsMatch(a) /\ AmountMatches(a) /\ TakerHoldsMore(a)
         /\ a.escrow_maker_acc # slots[a.escrow_acc].initializer_pubkey
         /\ a.escrow_temp_token_acc = slots[a.escrow_acc].temp_token_account_pubkey
         /\ a.escrow_maker_to_receive_acc
              = slots[a.escrow_acc].initializer_token_to_receive_account_pubkey

\* C7: InitEscrow on a slot whose record is Live, passing the signature,
\* receive-account owner and rent checks, fails with
\* AccountAlreadyInitialized whatever the amount and the other accounts, and
\* leaves the record as it was.
C7_ReinitializeRejected ==
    \A a \in InitArgs :
        (/\ Live(State, a.escrow_account)
         /\ a.is_signer
         /\ a.token_to_receive_account \in TokenAccts
         /\ tokens[a.token_to_receive_account].open
         /\ lamports[a.escrow_account] >= 1) =>
            /\ process_init_escrow(State, a).err = "AccountAlreadyInitialized"
            /\ process_init_escrow(State, a).st.slots[a.escrow_account]
                 = slots[a.escrow_account]

\* an InitEscrow on a Live slot has just been refused
C7_Witness ==
    /\ last.op = "InitEscrow" /\ last.err = "AccountAlreadyInitialized"
    /\ \E s \in Slots : Live(State, s) /\ lamports[s] >= 1

\* C8: an Exchange on a Live record that passes the signature, asset-type
\* and amount checks while the taker's send account holds no more than
\* expected_amount fails with NotEnoughBalanceToSent and changes nothing.
C8_InsufficientBalanceRejected ==
    \A a \in ExchangeArgs :
        (ExchangeOnLive(a) /\ MintsMatch(a) /\ AmountMatches(a)
           /\ ~TakerHoldsMore(a)) =>
            /\ process_exchange(State, a).err = "NotEnoughBalanceToSent"
            /\ process_exchange(State, a).st = State

\* an Exchange whose taker holds exactly the expected amount, and whose
\* accounts are the recorded ones, has just been refused
C8_Witness ==
    /\ last.op = "Exchange" /\ last.err = "NotEnoughBalanceToSent"
    /\ \E a \in ExchangeArgs :
         /\ ExchangeOnLive(a) /\ MintsMatch(a) /\ AmountMatches(a) /\ ~Spoofed(a)
         /\ tokens[a.taker_token_sent_acc].amount = slots[a.escrow_acc].expected_amount
         /\ tokens[a.taker_token_sent_acc].amount > 0

\* no wallet can move tokens out of account h under its own authority
NoWalletTransfer(st, h) ==
    \A w \in Wallets, d \in TokenAccts, n \in 0..MaxAmount + 1 :
        transfer(st, h, d, w, n).err \notin {"Ok"}

StateNext == [tokens |-> tokens', lamports |-> lamports', slots |-> slots']

\* C5: a successful InitEscrow leaves the temporary account owned by the
\* program-derived address; the account keeps that owner until it is closed,
\* and while it does the token program rejects every transfer out of it that
\* a wallet (the maker included) authorizes.
C5_AuthorityExclusive ==
    /\ [](/\ Committed("InitEscrow") =>
              tokens[last.args.temp_token_account].owner = PDA
          /\ \A h \in TokenAccts :
                (tokens[h].open /\ tokens[h].owner = PDA) => NoWalletTransfer(State, h))
    /\ [][\A h \in TokenAccts :
            (tokens[h].owner = PDA /\ tokens'[h].open) => tokens'[h].owner = PDA]_vars

\* the maker's transfer out of the temporary account of a Live record of
\* theirs, for an amount the account holds, has just been rejected
C5_Witness ==
    /\ last.op = "Transfer" /\ last.err = "OwnerMismatch"
    /\ \E s \in Slots :
         /\ Live(State, s)
         /\ slots[s].temp_token_account_pubkey = last.args.source
         /\ slots[s].initializer_pubkey = last.args.authority
    /\ tokens[last.args.source].amount >= last.args.amount

\* C6: the temporary account of a Live record is open, owned by the
\* program-derived address, and keeps its balance for as long as the record
\* is Live, whatever InitEscrow, Exchange and Cancel calls are made.
C6_HoldingIntact ==
    [][\A s \in Slots :
         Live(StateNext, s) =>
            LET h == slots'[s].temp_token_account_pubkey
            IN  /\ tokens'[h].open
                /\ tokens'[h].owner = PDA
                /\ Live(State, s) => tokens'[h].amount = tokens[h].amount]_vars

\* the escrow account named by a committed Exchange or Cancel
Settled == Committed("Exchange") \/ Committed("CancelEscrow")

\* C9: a record is settled at most once: the Exchange or Cancel that commits
\* leaves the slot Empty, and every Exchange or Cancel naming that slot next
\* fails and changes nothing.
C9_SettledOnce ==
    Settled =>
        /\ PreRecord.is_initialized
        /\ ~Live(State, last.args.escrow_acc)
        /\ \A a \in ExchangeArgs :
              a.escrow_acc = last.args.escrow_acc =>
                 /\ process_exchange(State, a).err # "Ok"
                 /\ process_exchange(State, a).st = State
        /\ \A a \in CancelArgs :
              a.escrow_acc = last.args.escrow_acc =>
                 /\ process_cancel(State, a).err # "Ok"
                 /\ process_cancel(State, a).st = State

\* a record was settled while another Live record, with an open temporary
\* account, remains: only the naming of the settled slot makes a second
\* settlement fail
C9_Witness ==
    /\ Settled
    /\ \E s \in Slots :
         /\ Live(State, s)
         /\ tokens[slots[s].temp_token_account_pubkey].open

\* C10: a slot goes from Empty to Live only by a committed InitEscrow naming
\* it, from Live to Empty only by a committed Exchange or Cancel naming it,
\* and a record that stays Live keeps its four fields.
C10_StateMachine ==
    [][\A s \in Slots :
         /\ (~Live(State, s) /\ Live(StateNext, s)) =>
               /\ last'.op = "InitEscrow" /\ last'.err = "Ok"
               /\ last'.args.escrow_account = s
         /\ (Live(State, s) /\ ~Live(StateNext, s)) =>
               /\ last'.op \in {"Exchange", "CancelEscrow"} /\ last'.err = "Ok"
               /\ last'.args.escrow_acc = s
         /\ (Live(State, s) /\ Live(StateNext, s)) => slots'[s] = slots[s]]_vars

\* a slot has been Empty, Live and Empty again while the other slot is Live
\* and an InitEscrow naming the Live slot has just been refused
C10_Witness ==
    /\ \E s \in Slots : slots[s].len = 0
    /\ \E s \in Slots : Live(State, s)
    /\ last.op = "InitEscrow" /\ last.err # "Ok"

\* the slot was destroyed by a settlement: no data and no storage balance
\* (a slot that was never used holds ESCROW_LEN zero bytes instead)
Cleared(s) == slots[s] = EmptyData /\ lamports[s] = 0

\* C11: a destroyed record cannot be reused: a committed Exchange or Cancel
\* leaves its slot cleared, every InitEscrow naming a cleared slot fails, and
\* a cleared slot stays cleared, so it is never Live again.
C11_DestroyedNotReused ==
    /\ [](Settled => Cleared(last.args.escrow_acc))
    /\ [](\A s \in Slots :
            Cleared(s) =>
               /\ ~Live(State, s)
               /\ \A a \in InitArgs :
                     a.escrow_account = s => process_init_escrow(State, a).err # "Ok")
    /\ [][\A s \in Slots :
            Cleared(s) => slots'[s] = EmptyData /\ lamports'[s] = 0]_vars

\* an InitEscrow naming a cleared slot has just been refused (only a cleared
\* slot has no storage balance) while a fresh holding account was on offer
C11_Witness ==
    /\ \E s \in Slots : Cleared(s)
    /\ last.op = "InitEscrow" /\ last.err = "AccountNotRentExempt"
    /\ \E h \in {"h1", "h2"} : tokens[h].open /\ tokens[h].owner \in Wallets

C13_DeclaredAmountBound ==
    /\ Committed("Exchange") =>
          /\ last.args.amount_expected =
                last.pre.tokens[last.args.escrow_temp_token_acc].amount
          /\ last.args.taker_token_to_receive_acc # last.args.escrow_temp_token_acc =>
                tokens[last.args.taker_token_to_receive_acc].amount =
                   last.pre.tokens[last.args.taker_token_to_receive_acc].amount
                      + last.args.amount_expected
    /\ \A a \in ExchangeArgs :
          (ExchangeOnLive(a) /\ MintsMatch(a) /\ ~AmountMatches(a)) =>
             process_exchange(State, a).err = "ExpectedAmountMismatch"

\* an Exchange was committed although the record's expected amount differs
\* from the amount the taker declared and received, and a Live record remains
\* on which a wrong declaration is refused
C13_Witness ==
    /\ Committed("Exchange")
    /\ last.args.amount_expected > 0
    /\ PreRecord.expected_amount # last.args.amount_expected
    /\ \E a \in ExchangeArgs :
          ExchangeOnLive(a) /\ MintsMatch(a) /\ ~AmountMatches(a)

\* the error of the first precondition of an Exchange that fails, among the
\* asset-type, amount, balance and identity preconditions taken in that order
FirstFailing(a) ==
    IF ~MintsMatch(a) THEN "ExpectedMintMismatch"
    ELSE IF ~AmountMatches(a) THEN "ExpectedAmountMismatch"
    ELSE IF ~TakerHoldsMore(a) THEN "NotEnoughBalanceToSent"
    ELSE IF Spoofed(a) THEN "InvalidAccountData"
    ELSE "Ok"

\* the number of preconditions 2..5 that the call fails
FailingCount(a) ==
    (IF MintsMatch(a) THEN 0 ELSE 1) + (IF AmountMatches(a) THEN 0 ELSE 1)
      + (IF TakerHoldsMore(a) THEN 0 ELSE 1) + (IF Spoofed(a) THEN 1 ELSE 0)

\* C14: an unsigned Exchange fails with MissingRequiredSignature whatever
\* else is wrong, and a signed Exchange on a Live record that fails any of
\* the asset-type, amount, balance and identity preconditions fails with the
\* error of the first one that fails, in that order.
C14_ExchangePrecedence ==
    \A a \in ExchangeArgs :
        /\ ~a.is_signer =>
              process_exchange(State, a).err = "MissingRequiredSignature"
        /\ (ExchangeOnLive(a) /\ FirstFailing(a) # "Ok") =>
              process_exchange(State, a).err = FirstFailing(a)

\* for each of the four errors there is a call failing with it that fails a
\* later precondition too, and an unsigned call on a Live record declares a
\* wrong amount
C14_Witness ==
    /\ \A e \in {"ExpectedMintMismatch", "ExpectedAmountMismatch",
                 "NotEnoughBalanceToSent"} :
          \E a \in ExchangeArgs :
              ExchangeOnLive(a) /\ FirstFailing(a) = e /\ FailingCount(a) >= 2
    /\ \E a \in ExchangeArgs :
          /\ ExchangeOnLive(a) /\ MintsMatch(a) /\ ~AmountMatches(a)
          /\ ~TakerHoldsMore(a) /\ Spoofed(a)
    /\ \E a \in ExchangeArgs :
          /\ ~a.is_signer /\ Live(State, a.escrow_acc) /\ ~AmountMatches(a)
    /\ last.op = "Exchange" /\ last.err = "ExpectedAmountMismatch"

\* the storage balance the maker would hold after the credit: the maker's,
\* the closed temporary account's and the escrow slot's
CreditSum(maker, temp, s) == lamports[maker] + lamports[temp] + lamports[s]

\* C15: when a Cancel or an Exchange has made all its token-program calls,
\* it returns AmountOverflow if the maker's storage balance, the closed
\* temporary account's and the slot's add up to more than the u64 maximum,
\* and otherwise succeeds and leaves the maker exactly that sum; a call that
\* fails with AmountOverflow leaves every account as it was.
C15_OverflowFatal ==
    /\ [](\A a \in CancelArgs :
            LET r == process_cancel(State, a)
                sum == CreditSum(a.owner, a.escrow_temp_token_acc, a.escrow_acc)
            IN  /\ r.calls = 2 =>
                     IF sum > U64Max THEN r.err = "AmountOverflow"
                     ELSE r.err = "Ok" /\ r.st.lamports[a.owner] = sum
                /\ r.err = "AmountOverflow" => r.calls = 2 /\ sum > U64Max)
    /\ [](\A a \in ExchangeArgs :
            LET r == process_exchange(State, a)
                sum == CreditSum(a.escrow_maker_acc, a.escrow_temp_token_acc,
                                 a.escrow_acc)
            IN  /\ r.calls = 3 =>
                     IF sum > U64Max THEN r.err = "AmountOverflow"
                     ELSE r.err = "Ok" /\ r.st.lamports[a.escrow_maker_acc] = sum
                /\ r.err = "AmountOverflow" => r.calls = 3 /\ sum > U64Max)
    /\ [][last'.err = "AmountOverflow" =>
             UNCHANGED <<tokens, lamports, slots>>]_vars

\* a settlement has just failed with AmountOverflow after an earlier one was
\* credited, and both a Cancel and an Exchange of the remaining record would
\* overflow the maker's storage balance
C15_Witness ==
    /\ last.err = "AmountOverflow"
    /\ \E s \in Slots : Cleared(s)
    /\ \E a \in CancelArgs : process_cancel(State, a).err = "AmountOverflow"
    /\ \E a \in ExchangeArgs : process_exchange(State, a).err = "AmountOverflow"

\* C16: a committed InitEscrow leaves in its slot a Live record holding the
\* initializer, the temporary account, the receiving account and the amount
\* of the call, moves the temporary account's authority from the initializer
\* to the program-derived authority, and changes no token balance (nor
\* anything else).
C16_InitializeEffect ==
    Committed("InitEscrow") =>
        LET a == last.args
            h == last.args.temp_token_account
        IN  /\ Live(State, a.escrow_account)
            /\ slots[a.escrow_account].len = ESCROW_LEN
            /\ slots[a.escrow_account].initializer_pubkey = a.initializer
            /\ slots[a.escrow_account].temp_token_account_pubkey = h
            /\ slots[a.escrow_account].initializer_token_to_receive_account_pubkey
                  = a.token_to_receive_account
            /\ slots[a.escrow_account].expected_amount = a.amount
            /\ last.pre.tokens[h].owner = a.initializer
            /\ tokens[h].owner = PDA
            /\ \A k \in TokenAccts : tokens[k].amount = last.pre.tokens[k].amount
            /\ tokens = [last.pre.tokens EXCEPT ![h].owner = PDA]
            /\ lamports = last.pre.lamports
            /\ \A s \in Slots \ {a.escrow_account} : slots[s] = last.pre.slots[s]

\* an InitEscrow has just been committed with a funded temporary account
\* and an amount other than that account's balance, while the other slot
\* holds a Live record
C16_Witness ==
    /\ Committed("InitEscrow")
    /\ tokens[last.args.temp_token_account].amount > 0
    /\ last.args.amount # tokens[last.args.temp_token_account].amount
    /\ \E s \in Slots : s # last.args.escrow_account /\ Live(State, s)

\* the errors the Exchange and Cancel handlers raise from their validations
\* (the signer, the unpacking of the accounts and the record, the checks)
ValidationErrors ==
    {"MissingRequiredSignature", "InvalidAccountData", "UninitializedAccount",
     "ExpectedMintMismatch", "ExpectedAmountMismatch", "NotEnoughBalanceToSent"}

\* C17 as stated: in Exchange and Cancel no error raised by the handler
\* itself comes after a token-program call was made.
C17_NoHandlerErrorAfterCall ==
    /\ \A a \in ExchangeArgs :
          LET r == process_exchange(State, a)
          IN  (r.err # "Ok" /\ r.by = "handler") => r.calls = 0
    /\ \A a \in CancelArgs :
          LET r == process_cancel(State, a)
          IN  (r.err # "Ok" /\ r.by = "handler") => r.calls = 0

\* C17: in Exchange and Cancel every validation of the signer, the accounts
\* and the amounts is raised before the first token-program call, with
\* nothing written; the record is cleared last, so no failing call has
\* touched it; the one error the handler raises after its token-program
\* calls is AmountOverflow, once all of them are made.
C17_ValidationsFirst ==
    /\ \A a \in ExchangeArgs :
          LET r == process_exchange(State, a)
          IN  /\ (r.err # "Ok" /\ r.by = "handler") =>
                    \/ r.calls = 0 /\ r.err \in ValidationErrors /\ r.st = State
                    \/ r.calls = 3 /\ r.err = "AmountOverflow"
              /\ (r.err # "Ok" /\ r.by = "ledger") => r.err \notin ValidationErrors
              /\ r.err # "Ok" => r.st.slots = slots
    /\ \A a \in CancelArgs :
          LET r == process_cancel(State, a)
          IN  /\ (r.err # "Ok" /\ r.by = "handler") =>
                    \/ r.calls = 0 /\ r.err \in ValidationErrors /\ r.st = State
                    \/ r.calls = 2 /\ r.err = "AmountOverflow"
              /\ (r.err # "Ok" /\ r.by = "ledger") => r.err \notin ValidationErrors
              /\ r.err # "Ok" => r.st.slots = slots

\* an Exchange has just failed with AmountOverflow: the handler raised it
\* with both transfers made and the temporary account closed, the record
\* still in place
C17_Witness ==
    /\ last.op = "Exchange" /\ last.err = "AmountOverflow"
    /\ \E a \in ExchangeArgs :
          LET r == process_exchange(State, a)
          IN  /\ r.err = "AmountOverflow" /\ r.by = "handler" /\ r.calls = 3
              /\ ~r.st.tokens[a.escrow_temp_token_acc].open
              /\ r.st.slots = slots

\* C18: a Cancel is committed only when the temporary account it names is
\* the one stored in the record it destroys.
C18_CancelBoundHolding ==
    Committed("CancelEscrow") =>
        last.args.escrow_temp_token_acc = PreRecord.temp_token_account_pubkey

RECURSIVE SumAmounts(_, _, _)
\* the sum of the balances of the open accounts of S that hold mint m
SumAmounts(tk, m, S) ==
    IF S = {} THEN 0
    ELSE LET k == CHOOSE x \in S : TRUE
         IN  (IF tk[k].open /\ tk[k].mint = m THEN tk[k].amount ELSE 0)
               + SumAmounts(tk, m, S \ {k})

\* the tokens of mint m in existence
Supply(tk, m) == SumAmounts(tk, m, TokenAccts)

\* every mint has the supply it had before the first instruction
Conserved(tk) ==
    \A m \in {MintX, MintY} : Supply(tk, m) = Supply(InitTokens, m)

InitOfLockedHolding(a) ==
    /\ InitChecks(State, a) = "Ok"
    /\ tokens[a.temp_token_account].open
    /\ tokens[a.temp_token_account].owner = PDA

\* C20: no two Live records name the same temporary account: an InitEscrow
\* that passes its checks and names a temporary account already owned by the
\* program-derived authority is refused by set_authority with OwnerMismatch,
\* after the record was written, and a refused InitEscrow leaves every slot
\* as it was.
C20_HoldingsDistinct ==
    /\ [](\A s1, s2 \in Slots :
            (s1 # s2 /\ Live(State, s1) /\ Live(State, s2)) =>
               slots[s1].temp_token_account_pubkey
                  # slots[s2].temp_token_account_pubkey)
    /\ [](\A a \in InitArgs :
            InitOfLockedHolding(a) =>
               LET r == process_init_escrow(State, a)
               IN  /\ r.err = "OwnerMismatch" /\ r.by = "ledger"
                   /\ Live(r.st, a.escrow_account)
                   /\ ~Live(State, a.escrow_account))
    /\ [][(last'.op = "InitEscrow" /\ last'.err # "Ok") => slots' = slots]_vars

\* an InitEscrow has just been refused with OwnerMismatch in a state where a
\* Live record holds a temporary account and a call naming that account for
\* the other, Empty, slot passes every check
C20_Witness ==
    /\ last.op = "InitEscrow" /\ last.err = "OwnerMismatch"
    /\ \E a \in InitArgs :
          /\ InitOfLockedHolding(a)
          /\ \E s \in Slots :
                Live(State, s)
                  /\ slots[s].temp_token_account_pubkey = a.temp_token_account

====
